---- MODULE Spec2Model ----
(***************************************************************************)
(* The message-send pipeline of src/src/App.js: the module-level response  *)
(* cache and sendMessage (src/api/openai.js), the conversation state       *)
(* (src/context/ChatContext.js), Chat.handleSend with its 15-second race    *)
(* (src/components/Chat.js) and the InputBox guard                         *)
(* (src/components/InputBox.js).                                           *)
(*                                                                         *)
(* Texts (prompts, messages, completions, cache keys) are tuples of string *)
(* pieces, so that concatenation and trimming are computed, not assumed.   *)
(* Whitespace and ':' are always pieces of their own.                      *)
(*                                                                         *)
(* Time is a discrete clock whose unit is the client timeout (15 s, which  *)
(* divides the 5-minute time-to-live).  Timers are idealised: a callback   *)
(* runs in the instant its delay elapses (the clock does not advance past  *)
(* a due timer); other events of that instant may run before it.           *)
(***************************************************************************)
EXTENDS Integers, Sequences, FiniteSets, TLC

VARIABLES
  messageCache,  \* App.js:48   the Map: cache key -> cached result
  evictTimers,   \* App.js:76   pending setTimeout(delete) callbacks, oldest first
  calls,         \* App.js:50   every sendMessage invocation so far, in call order
  messages,      \* App.js:91   the conversation
  isLoading,     \* App.js:92
  stored         \* history: per key, the most recent store and its age

vars == <<messageCache, evictTimers, calls, messages, isLoading, stored>>

-----------------------------------------------------------------------------
\* Bounds of the model.

MaxCalls == 2

-----------------------------------------------------------------------------
\* Program constants.

\* App.js:76, the delay of the eviction timer.
CacheTtlMs == 5 * 60 * 1000

\* App.js:139, the delay of the timer handleSend races the request against.
ClientTimeoutMs == 15000

\* The unit of the clock.
TickMs == ClientTimeoutMs

\* The two delays in clock units.
CacheTtl == CacheTtlMs \div TickMs

ClientTimeout == ClientTimeoutMs \div TickMs

\* App.js:150
Fallback == <<"Sorry, there was an error processing your request.">>

\* JavaScript's undefined: what reading a missing property yields.
Undefined == <<"undefined">>

\* No value (yet).
None == <<"none">>

-----------------------------------------------------------------------------
\* Inputs.

\* What the user can have typed into the InputBox when pressing send.
Typed == {<<"a">>, <<":", "a">>, <<>>, <<" ">>}

\* The (message, systemPrompt) pairs of direct calls of sendMessage.
ApiPairs == {<<(<<"a">>), (<<":">>)>>}

Completions == {<<"r1">>, <<"r2">>}

\* What the transport can deliver for one request: a completion, a non-2xx
\* status, a transport error (the transport's own 10-second timeout of
\* App.js:44 is one), a 2xx body without choices, and a 2xx body whose first
\* choice has a message without content.  When the response arrives is the
\* environment's choice; a request may stay unanswered for ever.
Responses ==
  {[kind |-> "ok", content |-> t] : t \in Completions}
    \cup {[kind |-> k, content |-> None] :
            k \in {"status", "transport", "noChoices", "noContent"}}

-----------------------------------------------------------------------------
\* Pure functions.

IsSpace(c) == c \in {" ", "\t", "\n"}

RECURSIVE TrimStart(_)
TrimStart(s) ==
  IF s = <<>> THEN <<>>
  ELSE IF IsSpace(Head(s)) THEN TrimStart(Tail(s)) ELSE s

RECURSIVE TrimEnd(_)
TrimEnd(s) ==
  IF s = <<>> THEN <<>>
  ELSE IF IsSpace(s[Len(s)]) THEN TrimEnd(SubSeq(s, 1, Len(s) - 1)) ELSE s

\* Faulty variant of Trim: the guards test the text as typed.
TrimNothing(s) == s

\* String.prototype.trim
Trim(s) == TrimEnd(TrimStart(s))

\* `${systemPrompt}:${message}`
CacheKey(systemPrompt, message) == systemPrompt \o <<":">> \o message

\* api.post rejects (non-2xx status, transport error or transport timeout).
Rejects(resp) == resp.kind \in {"status", "transport"}

\* response.data.choices[0].message.content throws a TypeError when choices
\* or choices[0].message is missing.
ExtractThrows(resp) == resp.kind = "noChoices"

\* response.data.choices[0].message.content
Extract(resp) == IF resp.kind = "ok" THEN resp.content ELSE Undefined

\* Whether the try block of sendMessage throws for a settled request.
Throws(resp) == Rejects(resp) \/ ExtractThrows(resp)

\* The error the catch block logs and rethrows.
ErrorOf(resp) == IF Rejects(resp) THEN <<"AxiosError">> ELSE <<"TypeError">>

\* No response yet.
NoResponse == [kind |-> "none", content |-> None]

Put(f, k, v) == [x \in DOMAIN f \cup {k} |-> IF x = k THEN v ELSE f[x]]

Drop(f, k) == [x \in DOMAIN f \ {k} |-> f[x]]

-----------------------------------------------------------------------------
Init ==
  /\ messageCache = <<>>
  /\ evictTimers = <<>>
  /\ calls = <<>>
  /\ messages = <<>>
  /\ isLoading = FALSE
  /\ stored = <<>>

-----------------------------------------------------------------------------
\* sendMessage, up to its first suspension point (App.js:50-70).

\* What a call starting now finds of the most recent store under its key:
\* its text and whether its time-to-live is running ("fresh"), ends in this
\* instant ("ending") or is over ("expired").
LastStore(key) ==
  IF key \notin DOMAIN stored THEN [text |-> None, age |-> "never"]
  ELSE [text |-> stored[key].text,
        age |-> IF stored[key].age < CacheTtl THEN "fresh"
                ELSE IF stored[key].age = CacheTtl THEN "ending"
                ELSE "expired"]

\* messageCache.has(cacheKey)
CacheHit(key) == key \in DOMAIN messageCache

\* The number of requests a call posts before its first suspension point.
Posted(hit) == IF hit THEN 0 ELSE 1

\* The invocation record of sendMessage(message, systemPrompt) called now:
\* a hit returns messageCache.get(cacheKey) at once and posts nothing, a miss
\* posts one request and awaits it.  A call made by handleSend also carries
\* the race of App.js:138-145 and its timer.
SendMessage(message, systemPrompt, via) ==
  LET cacheKey == CacheKey(systemPrompt, message)
      hit == CacheHit(cacheKey)
  IN  [sp |-> systemPrompt, msg |-> message, key |-> cacheKey, via |-> via,
       st |-> IF hit THEN "returned" ELSE "awaiting",
       hit |-> hit,
       requests |-> Posted(hit),
       resp |-> NoResponse,
       value |-> IF hit THEN messageCache[cacheKey] ELSE None,
       seen |-> LastStore(cacheKey),
       race |-> IF via # "ui" THEN "none"
                ELSE IF hit THEN "resolved" ELSE "pending",
       timer |-> IF via = "ui" THEN "pending" ELSE "none",
       tleft |-> IF via = "ui" THEN ClientTimeout ELSE 0]

\* Faulty variant of AddMessage: the new message is put in front.
AddMessageInFront(list, message, isUser) ==
  <<[content |-> message, isUser |-> isUser]>> \o list

\* addMessage(message, isUser)
AddMessage(list, message, isUser) ==
  Append(list, [content |-> message, isUser |-> isUser])

\* Chat.handleSend(text), App.js:130-153, up to the await of the race.  On a
\* cache hit the race is already won by sendMessage's resolved promise, and
\* the continuation (App.js:147, 152) runs before any other event.
HandleSend(text) ==
  IF Trim(text) = <<>>
  THEN UNCHANGED vars
  ELSE
    LET c == SendMessage(text, <<>>, "ui")
        withUser == AddMessage(messages, text, TRUE)
    IN  /\ Len(calls) < MaxCalls
        /\ calls' = Append(calls, c)
        /\ messages' = IF c.hit THEN AddMessage(withUser, c.value, FALSE)
                       ELSE withUser
        /\ isLoading' = ~c.hit
        /\ UNCHANGED <<messageCache, evictTimers, stored>>

\* Faulty variant of Press: the guard does not look at isLoading.
PressWhileLoading(text) ==
  IF Trim(text) # <<>>
  THEN HandleSend(text)
  ELSE UNCHANGED vars

\* InputBox.handleSend, App.js:250-255: the send button's onPress.
Press(text) ==
  IF Trim(text) # <<>> /\ ~isLoading
  THEN HandleSend(text)
  ELSE UNCHANGED vars

\* A direct call of the exported sendMessage(message, systemPrompt).
ApiSend(message, systemPrompt) ==
  /\ Len(calls) < MaxCalls
  /\ calls' = Append(calls, SendMessage(message, systemPrompt, "api"))
  /\ UNCHANGED <<messageCache, evictTimers, messages, isLoading, stored>>

-----------------------------------------------------------------------------
\* The awaited request settles: sendMessage resumes (App.js:72-82), and when
\* handleSend is still awaiting the race, handleSend resumes (App.js:147-153).

\* Faulty variant of CacheSet: an entry already under the key is kept.
CacheSetIfAbsent(cache, key, result) ==
  IF key \in DOMAIN cache THEN cache ELSE Put(cache, key, result)

\* messageCache.set(cacheKey, result)
CacheSet(cache, key, result) == Put(cache, key, result)

\* Faulty variant of ScheduleEviction: the eviction is set one unit late.
ScheduleEvictionLate(timers, key, c) ==
  Append(timers, [key |-> key, store |-> c, left |-> CacheTtl + 1])

\* setTimeout(() => messageCache.delete(cacheKey), 5 * 60 * 1000)
ScheduleEviction(timers, key, c) ==
  Append(timers, [key |-> key, store |-> c, left |-> CacheTtl])

\* Faulty variant of CacheAfter: the catch block caches the error.
CacheAfterAlways(cache, key, resp) ==
  CacheSet(cache, key, IF Throws(resp) THEN ErrorOf(resp) ELSE Extract(resp))

\* The cache once sendMessage has resumed: the try block stores the result,
\* the catch block stores nothing.
CacheAfter(cache, key, resp) ==
  IF Throws(resp) THEN cache ELSE CacheSet(cache, key, Extract(resp))

\* Faulty variant of TimersAfter: the store schedules no eviction.
TimersAfterNothing(timers, key, c, resp) == timers

\* The pending evictions once sendMessage has resumed.
TimersAfter(timers, key, c, resp) ==
  IF Throws(resp) THEN timers ELSE ScheduleEviction(timers, key, c)

\* Faulty variant of Resumed: the catch block posts the request once more
\* before giving up.
ResumedWithRetry(call, resp) ==
  IF Throws(resp)
  THEN IF call.requests < 2
       THEN [call EXCEPT !.requests = @ + 1]
       ELSE [call EXCEPT !.st = "threw", !.value = ErrorOf(resp), !.resp = resp]
  ELSE [call EXCEPT !.st = "returned", !.value = Extract(resp), !.resp = resp]

\* The call once sendMessage has resumed: return result, or throw error.
Resumed(call, resp) ==
  IF Throws(resp)
  THEN [call EXCEPT !.st = "threw", !.value = ErrorOf(resp), !.resp = resp]
  ELSE [call EXCEPT !.st = "returned", !.value = Extract(resp), !.resp = resp]

\* Promise.race: the first settlement decides, later ones change nothing.
RaceAfter(race, threw) ==
  IF race # "pending" THEN race
  ELSE IF threw THEN "rejected" ELSE "resolved"

\* The content of the bot message handleSend appends for a settled race:
\* App.js:147 on fulfilment, App.js:150 on rejection.
BotMessage(threw, value) == IF threw THEN Fallback ELSE value

\* Faulty variant of MessagesAfter: a settlement that lost the race still
\* appends its message.
MessagesAfterAlways(list, race, threw, value) ==
  AddMessage(list, BotMessage(threw, value), FALSE)

\* The conversation after a settlement reaches the race of call c.
MessagesAfter(list, race, threw, value) ==
  IF race = "pending"
  THEN AddMessage(list, BotMessage(threw, value), FALSE)
  ELSE list

\* Faulty variant of LoadingAfter: the finally block does not reset isLoading.
LoadingStuck(loading, race) == loading

\* Faulty variant of LoadingAfter: every settlement resets isLoading.
LoadingAfterAlways(loading, race) == FALSE

\* isLoading after a settlement reaches the race: the finally block.
LoadingAfter(loading, race) == IF race = "pending" THEN FALSE ELSE loading

NetworkSettles(c, resp) ==
  /\ c \in DOMAIN calls
  /\ calls[c].st = "awaiting"
  /\ LET call == Resumed(calls[c], resp)
     IN  /\ calls' = [calls EXCEPT
                        ![c] = [call EXCEPT
                                  !.race = RaceAfter(@, Throws(resp))]]
         /\ messageCache' = CacheAfter(messageCache, calls[c].key, resp)
         /\ evictTimers' = TimersAfter(evictTimers, calls[c].key, c, resp)
         /\ stored' = IF call.st = "returned"
                      THEN Put(stored, call.key,
                               [text |-> call.value, age |-> 0, store |-> c])
                      ELSE stored
         /\ messages' = MessagesAfter(messages, calls[c].race,
                                      call.st = "threw", call.value)
         /\ isLoading' = LoadingAfter(isLoading, calls[c].race)

-----------------------------------------------------------------------------
\* Timers.

\* Faulty variant of ClientTimerFires: the callback runs and rejects nothing.
ClientTimerLost(c) ==
  /\ c \in DOMAIN calls
  /\ calls[c].timer = "pending"
  /\ calls[c].tleft = 0
  /\ calls' = [calls EXCEPT ![c].timer = "fired"]
  /\ UNCHANGED <<messageCache, evictTimers, messages, isLoading, stored>>

\* The callback of App.js:139 runs: reject(new Error('Request timeout')).
\* It settles the race only when the race is still pending.
ClientTimerFires(c) ==
  /\ c \in DOMAIN calls
  /\ calls[c].timer = "pending"
  /\ calls[c].tleft = 0
  /\ calls' = [calls EXCEPT ![c].timer = "fired",
                            ![c].race = RaceAfter(@, TRUE)]
  /\ messages' = MessagesAfter(messages, calls[c].race, TRUE, None)
  /\ isLoading' = LoadingAfter(isLoading, calls[c].race)
  /\ UNCHANGED <<messageCache, evictTimers, stored>>

\* Faulty variant of CacheDelete: the callback deletes nothing.
CacheDeleteNothing(cache, key) == cache

\* messageCache.delete(cacheKey)
CacheDelete(cache, key) == Drop(cache, key)

\* The callback of App.js:76 runs.  Timers of equal delay run in the order
\* they were set, so the due one is the oldest.
EvictTimerFires ==
  /\ evictTimers # <<>>
  /\ Head(evictTimers).left = 0
  /\ messageCache' = CacheDelete(messageCache, Head(evictTimers).key)
  /\ evictTimers' = Tail(evictTimers)
  /\ UNCHANGED <<calls, messages, isLoading, stored>>

TimerDue ==
  \/ \E i \in DOMAIN evictTimers : evictTimers[i].left = 0
  \/ \E c \in DOMAIN calls : calls[c].timer = "pending" /\ calls[c].tleft = 0

\* One unit of time passes.
Tick ==
  /\ ~TimerDue
  /\ evictTimers' = [i \in DOMAIN evictTimers |->
                       [evictTimers[i] EXCEPT !.left = @ - 1]]
  /\ calls' = [c \in DOMAIN calls |->
                 IF calls[c].timer = "pending"
                 THEN [calls[c] EXCEPT !.tleft = @ - 1]
                 ELSE calls[c]]
  /\ stored' = [k \in DOMAIN stored |->
                  [stored[k] EXCEPT !.age = IF @ > CacheTtl THEN @ ELSE @ + 1]]
  /\ UNCHANGED <<messageCache, messages, isLoading>>

-----------------------------------------------------------------------------
Next ==
  \/ \E text \in Typed : Press(text)
  \/ \E p \in ApiPairs : ApiSend(p[1], p[2])
  \/ \E c \in 1..MaxCalls, resp \in Responses : NetworkSettles(c, resp)
  \/ \E c \in 1..MaxCalls : ClientTimerFires(c)
  \/ EvictTimerFires
  \/ Tick

Spec == Init /\ [][Next]_vars

\* The event loop runs every due timer callback, and time passes.
Fairness ==
  /\ WF_vars(Tick)
  /\ WF_vars(EvictTimerFires)
  /\ \A c \in 1..MaxCalls : WF_vars(ClientTimerFires(c))

FairSpec == Spec /\ Fairness

-----------------------------------------------------------------------------
\* Properties.

\* The store that wrote the entry now under key k is less than 5 minutes old.
Fresh(k) == k \in DOMAIN stored /\ stored[k].age < CacheTtl

\* The eviction that store c scheduled is still pending.
OwnTimerPending(c) == \E i \in DOMAIN evictTimers : evictTimers[i].store = c

\* The (message, systemPrompt) pairs sendMessage is called with.
Pairs == ApiPairs \cup {<<t, <<>>>> : t \in {x \in Typed : Trim(x) # <<>>}}

\* C1: less than 5 minutes after a text r was stored for a pair by a
\* successful response, a sendMessage call for that pair posts no request
\* and returns r.
C1_RecentStoreIsServed ==
  \A p \in Pairs :
    LET call == SendMessage(p[1], p[2], "api")
    IN  Fresh(call.key) => /\ call.hit
                           /\ call.requests = 0
                           /\ call.value = stored[call.key].text

\* C2: when the eviction timer of an earlier store runs while a newer store,
\* less than 5 minutes old, holds the key, the newer value stays in
\* messageCache.
C2_StaleTimerSparesNewerValue ==
  [][(evictTimers # <<>> /\ evictTimers' = Tail(evictTimers))
       => LET t == Head(evictTimers)
          IN  (CacheHit(t.key) /\ stored[t.key].store # t.store
                                /\ stored[t.key].age < CacheTtl)
                => /\ t.key \in DOMAIN messageCache'
                   /\ messageCache'[t.key] = messageCache[t.key]]_vars

\* C3: every entry of messageCache was stored less than 5 minutes ago (at
\* the latest its own eviction is due in this very instant), and every
\* cache hit returned the text of a store whose time-to-live was not over.
C3_NoEntryOutlivesTtl ==
  /\ \A k \in DOMAIN messageCache :
       /\ k \in DOMAIN stored
       /\ messageCache[k] = stored[k].text
       /\ \/ stored[k].age < CacheTtl
          \/ /\ stored[k].age = CacheTtl
             /\ \E i \in DOMAIN evictTimers :
                  /\ evictTimers[i].store = stored[k].store
                  /\ evictTimers[i].left = 0
  /\ \A c \in DOMAIN calls :
       calls[c].hit => /\ calls[c].seen.age \in {"fresh", "ending"}
                       /\ calls[c].value = calls[c].seen.text

\* A hit served in the last instant of the entry's time-to-live.
C3_Witness ==
  \E c \in DOMAIN calls : calls[c].hit /\ calls[c].seen.age = "ending"

\* C4: once more than 5 minutes have passed since the last store under a
\* key, the key is not in messageCache, and a sendMessage call that starts
\* then misses the cache and posts a request.
C4_ExpiredEntryIsGone ==
  /\ \A k \in DOMAIN stored : stored[k].age > CacheTtl => ~CacheHit(k)
  /\ \A c \in DOMAIN calls :
       calls[c].seen.age = "expired" => ~calls[c].hit /\ calls[c].requests = 1

\* A call made after the time-to-live of the last store for its key.
C4_Witness ==
  \E c \in DOMAIN calls :
    calls[c].seen.age = "expired" /\ calls[c].st = "awaiting"

\* handleSend of call c is awaiting its race.
Racing(c) == c \in DOMAIN calls /\ calls[c].race = "pending"

FallbackMessage == [content |-> Fallback, isUser |-> FALSE]

\* C5: every handleSend that awaits its race finishes; when its 15-second
\* timer fires before the request has settled, it finishes with the error
\* outcome: the fallback bot message is appended and isLoading is reset.
C5_SendAlwaysFinishes ==
  /\ \A c \in 1..MaxCalls : Racing(c) ~> ~Racing(c)
  /\ [][\A c \in DOMAIN calls :
          (Racing(c) /\ calls[c].timer = "pending" /\ calls'[c].timer = "fired")
            => /\ calls'[c].race = "rejected"
               /\ calls'[c].st = "awaiting"
               /\ messages' = Append(messages, FallbackMessage)
               /\ isLoading /\ ~isLoading']_vars

\* The timeout has won a race whose request has still not settled.
C5_Witness ==
  \E c \in DOMAIN calls :
    /\ calls[c].race = "rejected" /\ calls[c].st = "awaiting"
    /\ calls[c].timer = "fired"
    /\ ~isLoading
    /\ messages[Len(messages)] = FallbackMessage

\* The network call failed: error status, transport error, malformed payload.
Failed(resp) == resp.kind \in {"status", "transport", "noChoices", "noContent"}

\* The position in the conversation of the bot message of handleSend call c.
BotIndex(c) == 2 * Cardinality({d \in 1..c : calls[d].via = "ui"})

\* Exactly one bot message, the fallback, answers handleSend call c.
OneFallback(c) ==
  /\ Len(messages) >= BotIndex(c)
  /\ messages[BotIndex(c)] = FallbackMessage
  /\ Len(messages) > BotIndex(c) => messages[BotIndex(c) + 1].isUser

\* C6: a sendMessage call whose network call failed has thrown, after a
\* single request, and exactly one bot message, the fallback, answers its
\* handleSend; the same holds of a handleSend whose timeout won.
C6_FailureYieldsOneFallback ==
  \A c \in DOMAIN calls :
    /\ Failed(calls[c].resp) =>
         /\ calls[c].st = "threw"
         /\ calls[c].requests = 1
         /\ calls[c].via = "ui" => OneFallback(c)
    /\ calls[c].race = "rejected" => OneFallback(c)

\* C7: when an awaited request succeeds, sendMessage returns the content of
\* the response's first choice and messageCache then maps the key built from
\* the call's (systemPrompt, message) to that content.
C7_MissReturnsAndCachesContent ==
  [][\A c \in DOMAIN calls :
       (calls[c].st = "awaiting" /\ calls'[c].st = "returned"
          /\ calls'[c].resp.kind = "ok")
         => LET key == CacheKey(calls[c].sp, calls[c].msg)
            IN  /\ calls'[c].value = calls'[c].resp.content
                /\ key \in DOMAIN messageCache'
                /\ messageCache'[key] = calls'[c].resp.content]_vars

\* A miss has just returned its completion and stored it under its key,
\* while the eviction of an earlier store under that key is pending.
C7_Witness ==
  \E c \in DOMAIN calls :
    /\ calls[c].st = "returned" /\ ~calls[c].hit /\ calls[c].resp.kind = "ok"
    /\ calls[c].seen.age = "never"
    /\ stored[calls[c].key].store = c /\ stored[calls[c].key].age = 0
    /\ Len(evictTimers) = 2 /\ evictTimers[1].key = calls[c].key
    /\ messageCache[calls[c].key] = calls[c].value

\* The pending evictions without their remaining delays.
TimerIds(timers) ==
  [i \in DOMAIN timers |-> [key |-> timers[i].key, store |-> timers[i].store]]

CacheChanges ==
  \/ messageCache' # messageCache
  \/ TimerIds(evictTimers') # TimerIds(evictTimers)

\* The step is the store of a miss that succeeds.
StoreStep ==
  \E c \in DOMAIN calls :
    /\ calls[c].st = "awaiting" /\ calls'[c].st = "returned" /\ ~calls[c].hit
    /\ messageCache' = Put(messageCache, calls[c].key, calls'[c].value)
    /\ TimerIds(evictTimers') =
         Append(TimerIds(evictTimers), [key |-> calls[c].key, store |-> c])

\* The step is a due eviction timer firing.
EvictStep ==
  /\ evictTimers # <<>>
  /\ Head(evictTimers).left = 0
  /\ evictTimers' = Tail(evictTimers)
  /\ messageCache' = Drop(messageCache, Head(evictTimers).key)

C9_OneRequestPerMiss ==
  \A c \in DOMAIN calls :
    /\ calls[c].hit => calls[c].requests = 0
    /\ ~calls[c].hit => calls[c].requests = 1

\* A miss that posted its one request and returned, and a hit.
C9_Witness ==
  \E c, d \in DOMAIN calls :
    /\ ~calls[c].hit /\ calls[c].st = "returned" /\ calls[c].requests = 1
    /\ calls[d].hit /\ calls[d].requests = 0

\* The request of call c, abandoned by the timeout, succeeds in this step.
LateSuccess(c) ==
  /\ calls[c].race = "rejected" /\ calls[c].timer = "fired"
  /\ calls[c].st = "awaiting" /\ calls'[c].st = "returned"

\* C10 as stated: the late success of a call abandoned by the timeout
\* appends no message and changes neither the cache nor the evictions.
C10_LateSuccessChangesNothing ==
  [][\A c \in DOMAIN calls :
       LateSuccess(c) => /\ messages' = messages
                         /\ messageCache' = messageCache
                         /\ evictTimers' = evictTimers]_vars

\* C10 amended: the late success appends no message and leaves isLoading as
\* it is, but it stores its text under the call's key and schedules one
\* eviction for it.
C10_LateSuccessOnlyCaches ==
  [][\A c \in DOMAIN calls :
       LateSuccess(c) =>
         /\ messages' = messages
         /\ isLoading' = isLoading
         /\ messageCache' = Put(messageCache, calls[c].key, calls'[c].value)
         /\ evictTimers' = Append(evictTimers, [key |-> calls[c].key,
                                                store |-> c,
                                                left |-> CacheTtl])]_vars

\* An abandoned call has succeeded after its timeout: the conversation ends
\* with its fallback message and the cache holds its text.
C10_Witness ==
  \E c \in DOMAIN calls :
    /\ calls[c].race = "rejected" /\ calls[c].st = "returned"
    /\ messages[BotIndex(c)] = FallbackMessage
    /\ Len(messages) = BotIndex(c)
    /\ CacheHit(calls[c].key) /\ messageCache[calls[c].key] = calls[c].value
    /\ OwnTimerPending(c)

-----------------------------------------------------------------------------
\* The handleSend invocations that have not finished.
Unfinished == {c \in DOMAIN calls : calls[c].race = "pending"}

\* Pressing send with this text would change something.
PressActs(text) == ENABLED (Press(text) /\ vars' # vars)

\* A handleSend starts in this step, as call c.
Starts(c) == c \notin DOMAIN calls /\ c \in DOMAIN calls' /\ calls'[c].via = "ui"

\* C11: at most one handleSend is unfinished at any time; isLoading is true
\* exactly from the start of a handleSend until its finally block; while it
\* is true pressing send does nothing, and a handleSend starts only when the
\* previous ones have finished and isLoading is false.
C11_OneSendAtATime ==
  /\ [](/\ Cardinality(Unfinished) <= 1
        /\ isLoading <=> Unfinished # {}
        /\ isLoading => \A text \in Typed : ~PressActs(text))
  /\ [][\A c \in 1..MaxCalls :
          Starts(c) => ~isLoading /\ Unfinished = {}]_vars

\* A second handleSend is awaiting its race after the first one has finished
\* (by its timeout, its request still unanswered).
C11_Witness ==
  /\ Len(calls) = 2
  /\ calls[1].via = "ui" /\ calls[1].race = "rejected"
  /\ calls[1].st = "awaiting"
  /\ calls[2].via = "ui" /\ calls[2].race = "pending"
  /\ isLoading

-----------------------------------------------------------------------------
IsPrefix(s, t) == Len(s) <= Len(t) /\ SubSeq(t, 1, Len(s)) = s

\* The handleSend invocations so far, and those that have finished.
Sends == {c \in DOMAIN calls : calls[c].via = "ui"}

Finished == {c \in Sends : calls[c].race # "pending"}

UserMessage(c) == [content |-> calls[c].msg, isUser |-> TRUE]

\* The bot message of a finished handleSend: what its sendMessage call
\* returned when the race was fulfilled, the fallback when it was rejected.
Answer(c) ==
  IF calls[c].race = "resolved"
  THEN [content |-> calls[c].value, isUser |-> FALSE]
  ELSE FallbackMessage

\* C12: the conversation only grows at its end (every step leaves the old
\* conversation as a prefix of the new one); it holds two messages for each
\* finished handleSend and one for the unfinished one, alternating user, bot;
\* the i-th user message is the text of the i-th handleSend and the i-th bot
\* message is that handleSend's response or fallback.
C12_ConversationIsAppendOnly ==
  /\ [][IsPrefix(messages, messages')]_vars
  /\ [](/\ Len(messages) = 2 * Cardinality(Finished) + Cardinality(Unfinished)
        /\ \A i \in DOMAIN messages : messages[i].isUser <=> i % 2 = 1
        /\ \A c \in Sends : messages[BotIndex(c) - 1] = UserMessage(c)
        /\ \A c \in Finished : messages[BotIndex(c)] = Answer(c))

\* Two handleSends for different texts have finished with different
\* completions.
C12_Witness ==
  /\ Len(messages) = 4
  /\ Sends = {1, 2} /\ Finished = {1, 2}
  /\ calls[1].race = "resolved" /\ calls[2].race = "resolved"
  /\ calls[1].msg # calls[2].msg
  /\ messages[2].content # messages[4].content

-----------------------------------------------------------------------------
\* Empty or whitespace only.
Blank(s) == \A i \in DOMAIN s : IsSpace(s[i])

\* Calling handleSend with this text would change something.
HandleSendActs(text) == ENABLED (HandleSend(text) /\ vars' # vars)

\* C13: for an empty or whitespace-only text pressing send changes nothing
\* and handleSend itself changes nothing (no message, no isLoading, no
\* sendMessage call); hence no sendMessage call made by handleSend and no
\* user message of the conversation has such a text.
C13_NoBlankSend ==
  /\ \A text \in Typed :
       Blank(text) => ~PressActs(text) /\ ~HandleSendActs(text)
  /\ \A c \in Sends : ~Blank(calls[c].msg)
  /\ \A i \in DOMAIN messages :
       messages[i].isUser => ~Blank(messages[i].content)

\* The send button is live (a non-blank text would be sent) after an earlier
\* send, and a whitespace-only text would change nothing.
C13_Witness ==
  /\ ~isLoading /\ Len(messages) = 2
  /\ \E text \in Typed : PressActs(text)
  /\ \E text \in Typed : text # <<>> /\ Blank(text) /\ ~PressActs(text)

-----------------------------------------------------------------------------
\* C14: every pending eviction timer targets an entry that is in
\* messageCache and was written by the store that scheduled the timer; there
\* is at most one pending eviction timer per key, and there are never more
\* pending eviction timers than cached entries.
C14_NoLeakedEviction ==
  /\ \A i \in DOMAIN evictTimers :
       /\ CacheHit(evictTimers[i].key)
       /\ stored[evictTimers[i].key].store = evictTimers[i].store
  /\ \A i, j \in DOMAIN evictTimers :
       evictTimers[i].key = evictTimers[j].key => i = j
  /\ Len(evictTimers) <= Cardinality(DOMAIN messageCache)

-----------------------------------------------------------------------------
\* In this step the request of call c settles (sendMessage returns or
\* throws), respectively the 15-second timer of call c fires.
RequestSettles(c) == calls[c].st = "awaiting" /\ calls'[c].st # "awaiting"

TimerSettles(c) == calls[c].timer = "pending" /\ calls'[c].timer = "fired"

BotMessages == {i \in DOMAIN messages : ~messages[i].isUser}

\* C15: the first of the request and the 15-second timer to settle decides
\* the outcome of a handleSend and appends its one bot message (the returned
\* text when sendMessage returned, the fallback when it threw or when the
\* timer fired) and resets isLoading; the settlement of the other one later
\* changes neither the conversation nor isLoading nor the outcome; so there
\* is exactly one bot message for each finished handleSend.
C15_ExactlyOneOutcome ==
  /\ [][\A c \in Sends :
          /\ (calls[c].race = "pending" /\ RequestSettles(c)) =>
               /\ calls'[c].race =
                    IF calls'[c].st = "returned" THEN "resolved" ELSE "rejected"
               /\ messages' =
                    Append(messages,
                           IF calls'[c].st = "returned"
                           THEN [content |-> calls'[c].value, isUser |-> FALSE]
                           ELSE FallbackMessage)
               /\ ~isLoading'
          /\ (calls[c].race = "pending" /\ TimerSettles(c)) =>
               /\ calls'[c].race = "rejected"
               /\ messages' = Append(messages, FallbackMessage)
               /\ ~isLoading'
          /\ (calls[c].race # "pending"
                /\ (RequestSettles(c) \/ TimerSettles(c))) =>
               /\ calls'[c].race = calls[c].race
               /\ messages' = messages
               /\ isLoading' = isLoading]_vars
  /\ [](Cardinality(BotMessages) = Cardinality(Finished))

\* Both kinds of loser have settled: the late success of a request the
\* timer beat, and the timer of a later send that its request won.
C15_Witness ==
  \E c, d \in Sends :
    /\ calls[c].race = "rejected" /\ calls[c].st = "returned"
    /\ calls[d].race = "resolved" /\ calls[d].timer = "fired"
    /\ c < d /\ ~calls[d].hit
    /\ calls[d].seen.age = "never"
    /\ Cardinality(BotMessages) = 2

-----------------------------------------------------------------------------
\* The handleSend invocations that ended in an error.
Errored == {c \in Sends : calls[c].race = "rejected"}

\* Call d is a handleSend for the text of an earlier one that ended in error.
Resend(d) ==
  \E c \in Errored : c < d /\ calls[c].msg = calls'[d].msg /\ calls'[d].via = "ui"

\* C16: a handleSend that ends in an error (its request failed or its timer
\* fired first) resets isLoading, keeps the earlier messages and leaves the
\* cache as it is; afterwards, with no send unfinished, pressing send with a
\* non-blank text is accepted; a later handleSend for the same text is
\* processed as usual: its text is appended as user message, the cache alone
\* decides between hit and miss, and when its request succeeds it returns
\* the completion, caches it under its key and appends it as bot message.
C16_UsableAfterError ==
  /\ [][\A c \in Sends :
          (calls[c].race = "pending" /\ calls'[c].race = "rejected") =>
            /\ ~isLoading'
            /\ messages' = Append(messages, FallbackMessage)
            /\ messageCache' = messageCache]_vars
  /\ []((Errored # {} /\ Unfinished = {} /\ Len(calls) < MaxCalls) =>
          /\ ~isLoading
          /\ \A text \in Typed : ~Blank(text) => PressActs(text))
  /\ [][\A d \in 1..MaxCalls :
          /\ (Starts(d) /\ Resend(d)) =>
               /\ IsPrefix(messages, messages')
               /\ messages'[Len(messages) + 1] =
                    [content |-> calls'[d].msg, isUser |-> TRUE]
               /\ calls'[d].hit <=> CacheHit(calls'[d].key)
               /\ calls'[d].requests = IF calls'[d].hit THEN 0 ELSE 1
          /\ (d \in Sends /\ Resend(d) /\ calls[d].race = "pending"
                /\ RequestSettles(d) /\ calls'[d].resp.kind = "ok") =>
               /\ calls'[d].value = calls'[d].resp.content
               /\ CacheKey(<<>>, calls[d].msg) \in DOMAIN messageCache'
               /\ messageCache'[CacheKey(<<>>, calls[d].msg)] =
                    calls'[d].resp.content
               /\ messages' =
                    Append(messages, [content |-> calls'[d].resp.content,
                                      isUser |-> FALSE])
               /\ ~isLoading']_vars

\* After a handleSend ended by its timeout, its request still unanswered, a
\* second handleSend for the same text has missed the cache and succeeded:
\* the conversation is text, fallback, text, completion, and the completion
\* is cached.
C16_Witness ==
  /\ Sends = {1, 2} /\ Errored = {1}
  /\ calls[1].st = "awaiting" /\ calls[1].timer = "fired"
  /\ calls[2].msg = calls[1].msg
  /\ calls[2].race = "resolved" /\ ~calls[2].hit
  /\ calls[2].resp.kind = "ok"
  /\ messages = <<UserMessage(1), FallbackMessage, UserMessage(2),
                  [content |-> calls[2].resp.content, isUser |-> FALSE]>>
  /\ CacheHit(calls[2].key)
  /\ messageCache[calls[2].key] = calls[2].resp.content
  /\ ~isLoading

-----------------------------------------------------------------------------
\* Calls c and d, for the same key, both missed the cache before either
\* stored: d was started before any store under the key, or before c.
Overlap(c, d) ==
  /\ c # d
  /\ calls[c].key = calls[d].key
  /\ ~calls[c].hit /\ ~calls[d].hit
  /\ d < c \/ calls[d].seen.age = "never"

\* What a sendMessage call of call c's arguments would return at once now.
Lookup(c) == SendMessage(calls[c].msg, calls[c].sp, "api")

\* C17: when of two overlapping calls for one key the second to succeed
\* stores, the cache maps the key to its text; and once both have succeeded,
\* as long as the key is cached, the cache holds the text of the call that
\* stored under the key last (one of the two, or a later call) and a lookup
\* for the key is a hit returning that text.
C17_LastStoreWins ==
  /\ [][\A c, d \in DOMAIN calls :
          (Overlap(c, d) /\ calls[c].st = "returned"
             /\ RequestSettles(d) /\ calls'[d].st = "returned")
            => /\ calls[d].key \in DOMAIN messageCache'
               /\ messageCache'[calls[d].key] = calls'[d].value]_vars
  /\ [](\A c, d \in DOMAIN calls :
          (Overlap(c, d) /\ calls[c].st = "returned"
             /\ calls[d].st = "returned" /\ CacheHit(calls[c].key))
            => LET last == stored[calls[c].key].store
               IN  /\ last \in DOMAIN calls
                   /\ calls[last].key = calls[c].key
                   /\ calls[last].st = "returned" /\ ~calls[last].hit
                   /\ messageCache[calls[c].key] = calls[last].value
                   /\ Lookup(c).hit
                   /\ Lookup(c).requests = 0
                   /\ Lookup(c).value = calls[last].value)

\* Two overlapping calls for one key have succeeded with different texts,
\* the one called first storing last: the cache holds its text.
C17_Witness ==
  /\ Len(calls) = 2
  /\ Overlap(1, 2)
  /\ calls[1].msg = calls[2].msg /\ calls[1].sp = calls[2].sp
  /\ calls[1].st = "returned" /\ calls[2].st = "returned"
  /\ calls[1].value # calls[2].value
  /\ stored[calls[1].key].store = 1
  /\ CacheHit(calls[1].key)
  /\ messageCache[calls[1].key] = calls[1].value
  /\ Len(evictTimers) = 2

-----------------------------------------------------------------------------
\* The texts of at most two pieces over the alphabet {a, :}.
KeyTexts == {<<>>, <<"a">>, <<":">>, <<"a", "a">>, <<"a", ":">>,
             <<":", "a">>, <<":", ":">>}

\* Every hit so far returned a text stored by a call with the same
\* (systemPrompt, message) pair.
HitsAreOwnPair ==
  \A c, d \in DOMAIN calls :
    (calls[c].hit /\ d < c /\ calls[d].key = calls[c].key)
      => calls[d].sp = calls[c].sp /\ calls[d].msg = calls[c].msg

\* C18: two (systemPrompt, message) pairs over the alphabet {a, :} have the
\* same cache key only if they are the same pair, and no sendMessage call
\* returns a completion cached for a different pair.
C18_CacheKeyIdentifiesPair ==
  /\ \A sp1, m1, sp2, m2 \in KeyTexts :
       CacheKey(sp1, m1) = CacheKey(sp2, m2) => sp1 = sp2 /\ m1 = m2
  /\ HitsAreOwnPair

-----------------------------------------------------------------------------
\* The cache keys of the calls sendMessage can get.
Keys == {CacheKey(p[2], p[1]) : p \in Pairs}

\* An eviction timer is pending for key k.
EvictionPending(k) ==
  \E i \in DOMAIN evictTimers : evictTimers[i].key = k

\* C19: every key in messageCache has a pending eviction timer, so the cache
\* is empty whenever no eviction timer is pending; and every cached entry is
\* eventually removed, whether or not anything else happens.
C19_EveryEntryIsEvicted ==
  /\ [](\A k \in DOMAIN messageCache : EvictionPending(k))
  /\ [](evictTimers = <<>> => messageCache = <<>>)
  /\ \A k \in Keys : CacheHit(k) ~> ~CacheHit(k)

\* Two stores were made under one key and all eviction timers have fired:
\* the cache is empty.
C19_Witness ==
  /\ evictTimers = <<>> /\ messageCache = <<>>
  /\ \E c, d \in DOMAIN calls :
       /\ c # d /\ calls[c].key = calls[d].key
       /\ calls[c].st = "returned" /\ ~calls[c].hit
       /\ calls[d].st = "returned" /\ ~calls[d].hit

====
